---- MODULE Spec2Model ----
(***************************************************************************)
(* IMDBDataCollector of Recommender/Recommender-Code/imdb_data.py:         *)
(* get_imdb, the batch scheduler, with the workers (fetch_movie_data) it   *)
(* submits to a ThreadPoolExecutor, and the lookup service (Cinemagoer)    *)
(* the workers call.  Catalog positions are 0-based as in the code; the    *)
(* sequence catalog holds position i at catalog[i + 1].                    *)
(***************************************************************************)
EXTENDS Integers, Sequences, FiniteSets, Bags, TLC

(* ---- bounds of the model ---- *)
MaxLen == 5
MaxBatchSize == 2
MaxBatches == 2
MaxCalls == 2
MaxCands == 2
MaxBacklog == 1
PoolExcess == 1

(* ---- program constants ---- *)
max_workers == 10

VARIABLES
    catalog,            \* movies_df: the rows (Title, ReleaseYear) in order
    batch_size,         \* argument batch_size of get_imdb
    max_num_batches,    \* argument max_num_batches of get_imdb
    ia,                 \* what the service answers to search_movie, per title
    flaky,              \* titles whose lookups (search or details) may raise
    down,               \* the arguments for which search_movie and get_movie
                        \* raise at every call
    imdb_info,          \* self.imdb_info
    origin,             \* history: catalog position behind each imdb_info element
    pc,                 \* position of the scheduler thread in get_imdb
    batch_start_index,  \* local of get_imdb
    batch_counter,      \* local of get_imdb
    futures,            \* the futures of the current batch, in submission order
    completed,          \* as_completed: futures finished and not yet yielded
    early,              \* history: the futures that have finished while as_completed
                        \* is not yet called, in the order they finished
    dispatched,         \* history: positions submitted by this call, in order
    earlier,            \* history: positions submitted by earlier calls
    errors,             \* bag of (title, year) printed by "Error fetching"
    progress,           \* the (found, total) pairs printed by "Movies Found"
    capped_report,      \* "Reached max num batches" was printed by this call
    calls,              \* number of calls of get_imdb so far
    plan                \* number of calls of get_imdb the caller makes

vars == <<catalog, batch_size, max_num_batches, ia, flaky, down, imdb_info, origin, pc,
          batch_start_index, batch_counter, futures, completed, early, dispatched,
          earlier, errors, progress, capped_report, calls, plan>>

config == <<catalog, batch_size, max_num_batches, ia, flaky, down, plan>>

(* ---- values ---- *)
None == [none |-> TRUE]
Titles == {"Dune", "Heat"}
Years == {0, 1984, 2021}
Row(t, y) == [Title |-> t, ReleaseYear |-> y]
Movie(id, t, y) == [movieID |-> id, title |-> t, year |-> y]

Min(a, b) == IF a < b THEN a ELSE b
Max(a, b) == IF a > b THEN a ELSE b

\* The rows the parser hands over: position i (0-based) of a catalog.
CatalogRow(i) ==
    CASE i % 4 = 0 -> Row("Dune", 2021)
      [] i % 4 = 1 -> Row("Dune", 1984)
      [] i % 4 = 2 -> Row("Heat", 0)
      [] OTHER     -> Row("Heat", 1984)

Catalog(L) == [k \in 1..L |-> CatalogRow(k - 1)]

\* A catalog with one row the service knows, followed by rows it does not.
PoolCatalog(L) == [k \in 1..L |-> IF k = 1 THEN Row("Dune", 2021) ELSE Row("Heat", 1984)]

\* Two contents of the lookup service.
ImdbA == [t \in Titles |->
            IF t = "Dune" THEN <<Movie(1, "Dune", 2021), Movie(2, "Dune", 1984)>>
                          ELSE <<Movie(3, "Heat", 0)>>]
ImdbB == [t \in Titles |->
            IF t = "Dune" THEN <<Movie(4, "Dune", 1984), Movie(5, "Dune", 1984)>>
                          ELSE <<>>]
Services == {ImdbA, ImdbB}

\* The calls that raise whenever they are made: none, or some of a search of
\* "Heat" and the details of the movies 1 and 4.
Reliable == [search_movie |-> {}, get_movie |-> {}]
Outages == {[search_movie |-> S, get_movie |-> G] : S \in SUBSET {"Heat"},
                                                   G \in SUBSET {1, 4}}

\* Every search result of at most MaxCands candidates, movieID = rank in the result.
SearchResults ==
    UNION {{[k \in 1..n |-> Movie(k, f[k][1], f[k][2])] : f \in [1..n -> Titles \X Years]}
           : n \in 0..MaxCands}

(* ---- pandas .iloc[a:b] on a column of length L: the positions selected ---- *)
SliceBound(a, L) == IF a < 0 THEN Max(a + L, 0) ELSE Min(a, L)

Iloc(a, b, L) ==
    LET lo == SliceBound(a, L)
        hi == SliceBound(b, L)
    IN  [k \in 1..Max(hi - lo, 0) |-> lo + k - 1]

(* ---- fetch_movie_data: the resolution of a search result ---- *)

\* Mutant of Matches: the year is not compared.
MatchesTitleOnly(movie, movie_name, year) ==
    movie.title = movie_name

\* Line 128, the test of a candidate.
Matches(movie, movie_name, year) ==
    movie.year = year /\ movie.title = movie_name

\* Mutant of FirstMatch: the loop does not stop at the first match, the last one wins.
RECURSIVE LastMatch(_, _, _, _)
LastMatch(movies, k, movie_name, year) ==
    IF k > Len(movies) THEN None
    ELSE LET later == LastMatch(movies, k + 1, movie_name, year)
         IN  IF later # None THEN later
             ELSE IF Matches(movies[k], movie_name, year) THEN movies[k]
             ELSE None

\* Lines 126-129: the first candidate from rank k on that passes the test.
RECURSIVE FirstMatch(_, _, _, _)
FirstMatch(movies, k, movie_name, year) ==
    IF k > Len(movies) THEN None
    ELSE IF Matches(movies[k], movie_name, year) THEN movies[k]
    ELSE FirstMatch(movies, k + 1, movie_name, year)

Result(movie_name, year, movie_id) ==
    [Title |-> movie_name, ReleaseYear |-> year, movieID |-> movie_id]

(* ---- the futures of a batch ---- *)
\* submit(self.fetch_movie_data, movie_name, year) for the row at position i.
NewFuture(i) ==
    [idx |-> i, st |-> "queued", outcome |-> "", movie |-> None, result |-> None,
     nsearch |-> 0, ndetails |-> 0]

\* The arguments the future of slot s was submitted with.
name_of(s) == catalog[futures[s].idx + 1].Title
year_of(s) == catalog[futures[s].idx + 1].ReleaseYear

Slots == DOMAIN futures
Running == {s \in Slots : futures[s].st \in {"search", "details"}}
Finished == {s \in Slots : futures[s].st = "finished"}

Perms(S) == {f \in [1..Cardinality(S) -> S] : \A a, b \in 1..Cardinality(S) : f[a] = f[b] => a = b}

\* The state after IMDBDataCollector(): nothing collected, no call made.
Constructed ==
    /\ imdb_info = <<>>
    /\ origin = <<>>
    /\ pc = "idle"
    /\ batch_start_index = 0
    /\ batch_counter = 0
    /\ futures = <<>>
    /\ completed = <<>>
    /\ early = <<>>
    /\ dispatched = <<>>
    /\ earlier = {}
    /\ errors = EmptyBag
    /\ progress = <<>>
    /\ capped_report = FALSE
    /\ calls = 0

\* One call, as in the main script, over every configuration within the bounds.
Init ==
    /\ \E L \in 0..MaxLen : catalog = Catalog(L)
    /\ batch_size \in (0 - 1)..MaxBatchSize
    /\ max_num_batches \in 1..MaxBatches
    /\ ia \in Services
    /\ flaky = Titles
    /\ down = Reliable
    /\ plan = 1
    /\ Constructed

\* A batch larger than the pool.
InitPool ==
    /\ batch_size = max_workers + PoolExcess
    /\ catalog = PoolCatalog(batch_size + 1)
    /\ max_num_batches = 1
    /\ ia = ImdbA
    /\ flaky = {"Dune"}
    /\ down = Reliable
    /\ plan = 1
    /\ Constructed

\* Two rows of one title, dispatched one after the other, against every search
\* result within the bounds.
InitResolve ==
    /\ \E t \in Titles, y1 \in Years, y2 \in Years, movies \in SearchResults :
         /\ catalog = <<Row(t, y1), Row(t, y2), Row(t, y1)>>
         /\ ia = [n \in Titles |-> IF n = t THEN movies ELSE <<>>]
    /\ batch_size = 1
    /\ max_num_batches = 2
    /\ flaky = Titles
    /\ down = Reliable
    /\ plan = 1
    /\ Constructed

\* Several calls of get_imdb on one collector and one catalog.
InitResume ==
    /\ \E L \in 0..MaxLen : catalog = Catalog(L)
    /\ batch_size \in 1..MaxBatchSize
    /\ max_num_batches \in 1..MaxBatches
    /\ ia = ImdbA
    /\ flaky = {"Dune"}
    /\ down = Reliable
    /\ plan \in 1..MaxCalls
    /\ Constructed

\* One call against a service whose answer depends on the arguments of the call
\* alone: a call either raises every time or returns the same every time.
InitFixed ==
    /\ \E L \in 0..MaxLen : catalog = Catalog(L)
    /\ batch_size \in (0 - 1)..MaxBatchSize
    /\ max_num_batches \in 1..MaxBatches
    /\ ia \in Services
    /\ flaky = {}
    /\ down \in Outages
    /\ plan = 1
    /\ Constructed

(* ---- get_imdb, the scheduler thread ---- *)

\* Mutant of Call: the start index survives from the call before.
CallResuming ==
    /\ pc \in {"idle", "done"}
    /\ calls < plan
    /\ calls' = calls + 1
    /\ batch_start_index' = batch_start_index
    /\ batch_counter' = 0
    /\ earlier' = earlier \cup {dispatched[k] : k \in DOMAIN dispatched}
    /\ dispatched' = <<>>
    /\ capped_report' = FALSE
    /\ pc' = "loop"
    /\ UNCHANGED <<config, imdb_info, origin, futures, completed, early, errors,
                   progress>>

\* The call of get_imdb: lines 167-168.
Call ==
    /\ pc \in {"idle", "done"}
    /\ calls < plan
    /\ calls' = calls + 1
    /\ batch_start_index' = 0
    /\ batch_counter' = 0
    /\ earlier' = earlier \cup {dispatched[k] : k \in DOMAIN dispatched}
    /\ dispatched' = <<>>
    /\ capped_report' = FALSE
    /\ pc' = "loop"
    /\ UNCHANGED <<config, imdb_info, origin, futures, completed, early, errors,
                   progress>>

\* The test of the while loop, line 170.
LoopCondition ==
    /\ batch_counter < max_num_batches
    /\ batch_start_index < Len(catalog) - batch_size

\* Lines 171-179: a fresh pool, the slice of the batch, one submit per row.
Dispatch ==
    /\ pc = "loop"
    /\ LoopCondition
    /\ LET batch == Iloc(batch_start_index, batch_start_index + batch_size, Len(catalog))
       IN  /\ futures' = [s \in DOMAIN batch |-> NewFuture(batch[s])]
           /\ dispatched' = dispatched \o batch
    /\ completed' = <<>>
    /\ early' = <<>>
    /\ pc' = "submitted"
    /\ UNCHANGED <<config, imdb_info, origin, batch_start_index, batch_counter,
                   earlier, errors, progress, capped_report, calls>>

\* The loop ends: get_imdb returns.
Return ==
    /\ pc = "loop"
    /\ ~LoopCondition
    /\ pc' = "done"
    /\ UNCHANGED <<config, imdb_info, origin, batch_start_index, batch_counter, futures,
                   completed, early, dispatched, earlier, errors, progress,
                   capped_report, calls>>

\* Line 181, the call of as_completed: the futures that finished already are
\* yielded first, in the iteration order of a set, the others as they finish.
AsCompleted ==
    /\ pc = "submitted"
    /\ completed' \in Perms(Finished)
    /\ early' = <<>>
    /\ pc' = "collect"
    /\ UNCHANGED <<config, imdb_info, origin, batch_start_index, batch_counter, futures,
                   dispatched, earlier, errors, progress, capped_report, calls>>

\* Mutant of Collect: the scheduler takes the future that finished last.
CollectLast ==
    /\ pc = "collect"
    /\ completed # <<>>
    /\ LET s == completed[Len(completed)]
           result == futures[s].result
       IN  /\ futures' = [futures EXCEPT ![s].st = "collected"]
           /\ IF result # None
              THEN /\ imdb_info' = Append(imdb_info, result)
                   /\ origin' = Append(origin, futures[s].idx)
                   /\ progress' = Append(progress, <<Len(imdb_info) + 1, Len(catalog)>>)
              ELSE UNCHANGED <<imdb_info, origin, progress>>
    /\ completed' = SubSeq(completed, 1, Len(completed) - 1)
    /\ UNCHANGED <<config, pc, batch_start_index, batch_counter, early, dispatched,
                   earlier, errors, capped_report, calls>>

\* Mutant of Collect: the progress line is printed for every future yielded.
CollectReportingAll ==
    /\ pc = "collect"
    /\ completed # <<>>
    /\ LET s == Head(completed)
           result == futures[s].result
       IN  /\ futures' = [futures EXCEPT ![s].st = "collected"]
           /\ IF result # None
              THEN /\ imdb_info' = Append(imdb_info, result)
                   /\ origin' = Append(origin, futures[s].idx)
                   /\ progress' = Append(progress, <<Len(imdb_info) + 1, Len(catalog)>>)
              ELSE /\ progress' = Append(progress, <<Len(imdb_info), Len(catalog)>>)
                   /\ UNCHANGED <<imdb_info, origin>>
    /\ completed' = Tail(completed)
    /\ UNCHANGED <<config, pc, batch_start_index, batch_counter, early, dispatched,
                   earlier, errors, capped_report, calls>>

\* Lines 182-187: the body of the loop for the next future as_completed yields.
Collect ==
    /\ pc = "collect"
    /\ completed # <<>>
    /\ LET s == Head(completed)
           result == futures[s].result
       IN  /\ futures' = [futures EXCEPT ![s].st = "collected"]
           /\ IF result # None
              THEN /\ imdb_info' = Append(imdb_info, result)
                   /\ origin' = Append(origin, futures[s].idx)
                   /\ progress' = Append(progress, <<Len(imdb_info) + 1, Len(catalog)>>)
              ELSE UNCHANGED <<imdb_info, origin, progress>>
    /\ completed' = Tail(completed)
    /\ UNCHANGED <<config, pc, batch_start_index, batch_counter, early, dispatched,
                   earlier, errors, capped_report, calls>>

\* Mutant of BatchDone: the scheduler moves on when nothing is waiting to be yielded.
BatchDoneNoBarrier == completed = <<>>

\* as_completed is exhausted and the pool has shut down: every future was yielded.
BatchDone == \A s \in Slots : futures[s].st = "collected"

\* Mutant of EndBatch: a batch in which a lookup failed is not counted.
EndBatchSkippingFailed ==
    /\ pc = "collect"
    /\ BatchDone
    /\ batch_start_index' = batch_start_index + batch_size
    /\ batch_counter' = batch_counter
          + (IF \E s \in Slots : futures[s].outcome \in {"search_error", "details_error"}
             THEN 0 ELSE 1)
    /\ IF batch_counter' > max_num_batches
       THEN capped_report' = TRUE /\ pc' = "done"
       ELSE capped_report' = capped_report /\ pc' = "loop"
    /\ UNCHANGED <<config, imdb_info, origin, futures, completed, early, dispatched,
                   earlier, errors, progress, calls>>

\* Mutant of EndBatch: the start index moves on by one row, the batches overlap.
EndBatchOverlapping ==
    /\ pc = "collect"
    /\ BatchDone
    /\ batch_start_index' = batch_start_index + 1
    /\ batch_counter' = batch_counter + 1
    /\ IF batch_counter + 1 > max_num_batches
       THEN capped_report' = TRUE /\ pc' = "done"
       ELSE capped_report' = capped_report /\ pc' = "loop"
    /\ UNCHANGED <<config, imdb_info, origin, futures, completed, early, dispatched,
                   earlier, errors, progress, calls>>

\* Lines 191-195, after the with block.
EndBatch ==
    /\ pc = "collect"
    /\ BatchDone
    /\ batch_start_index' = batch_start_index + batch_size
    /\ batch_counter' = batch_counter + 1
    /\ IF batch_counter + 1 > max_num_batches
       THEN capped_report' = TRUE /\ pc' = "done"
       ELSE capped_report' = capped_report /\ pc' = "loop"
    /\ UNCHANGED <<config, imdb_info, origin, futures, completed, early, dispatched,
                   earlier, errors, progress, calls>>

(* ---- the pool and its workers, fetch_movie_data ---- *)

\* Mutant of CanStart: one thread per submitted item, no cap.
CanStartUncapped(s) ==
    /\ futures[s].st = "queued"
    /\ \A r \in Slots : r < s => futures[r].st # "queued"

\* A pool thread takes the oldest queued work item; the pool has max_workers threads.
CanStart(s) ==
    /\ futures[s].st = "queued"
    /\ \A r \in Slots : r < s => futures[r].st # "queued"
    /\ Cardinality(Running) < max_workers

Start(s) ==
    /\ CanStart(s)
    /\ futures' = [futures EXCEPT ![s].st = "search"]
    /\ UNCHANGED <<config, imdb_info, origin, pc, batch_start_index, batch_counter,
                   completed, early, dispatched, earlier, errors, progress,
                   capped_report, calls>>

\* The model lets the scheduler thread fall behind the workers of a batch beyond
\* MaxBatchSize by at most MaxBacklog finished futures.
BacklogOpen ==
    Len(futures) <= MaxBatchSize \/ Cardinality(Finished) < MaxBacklog

\* Mutant of Finish: a future that finishes after the call of as_completed is
\* never yielded by it.
FinishLost(s, outcome, r) ==
    /\ BacklogOpen
    /\ futures' = [futures EXCEPT ![s].st = "finished", ![s].outcome = outcome,
                                  ![s].result = r,
                                  ![s].nsearch = @ + (IF futures[s].st = "search" THEN 1 ELSE 0),
                                  ![s].ndetails = @ + (IF futures[s].st = "details" THEN 1 ELSE 0)]
    /\ completed' = completed
    /\ early' = IF pc = "submitted" THEN Append(early, s) ELSE early

\* The future of slot s finishes with result r: as_completed, once called, queues it.
Finish(s, outcome, r) ==
    /\ BacklogOpen
    /\ futures' = [futures EXCEPT ![s].st = "finished", ![s].outcome = outcome,
                                  ![s].result = r,
                                  ![s].nsearch = @ + (IF futures[s].st = "search" THEN 1 ELSE 0),
                                  ![s].ndetails = @ + (IF futures[s].st = "details" THEN 1 ELSE 0)]
    /\ completed' = IF pc = "collect" THEN Append(completed, s) ELSE completed
    /\ early' = IF pc = "submitted" THEN Append(early, s) ELSE early

\* Mutant of ReportError: the except clause swallows the error without a print.
ReportErrorSilent(s) ==
    errors' = errors

\* Lines 141-143: the except clause prints the error.
ReportError(s) ==
    errors' = errors (+) SetToBag({<<name_of(s), year_of(s)>>})

\* Whether the call of search_movie, and of get_movie, by the worker of slot s raises.
SearchRaises(s) ==
    IF name_of(s) \in down.search_movie THEN {TRUE}
    ELSE IF name_of(s) \in flaky THEN BOOLEAN ELSE {FALSE}

DetailsRaises(s) ==
    IF futures[s].movie.movieID \in down.get_movie THEN {TRUE}
    ELSE IF name_of(s) \in flaky THEN BOOLEAN ELSE {FALSE}

\* Mutant of SearchMovie: the service refuses a search while another lookup is in
\* flight.
SearchMovieThrottled(s) ==
    /\ futures[s].st = "search"
    /\ \E raises \in (IF \E r \in Slots \ {s} : futures[r].st \in {"search", "details"}
                      THEN {TRUE} ELSE SearchRaises(s)) :
         IF raises
         THEN Finish(s, "search_error", None) /\ ReportError(s)
         ELSE LET movie == FirstMatch(ia[name_of(s)], 1,
                                      name_of(s), year_of(s))
              IN  /\ IF movie = None
                     THEN Finish(s, "no_match", None)
                     ELSE /\ futures' = [futures EXCEPT ![s].st = "details",
                                                        ![s].movie = movie,
                                                        ![s].nsearch = @ + 1]
                          /\ UNCHANGED <<completed, early>>
                  /\ UNCHANGED errors
    /\ UNCHANGED <<config, imdb_info, origin, pc, batch_start_index, batch_counter,
                   dispatched, earlier, progress, capped_report, calls>>

\* Mutant of SearchMovie: no try/except, a failed search ends the run.
SearchMovieFatal(s) ==
    /\ futures[s].st = "search"
    /\ \E raises \in SearchRaises(s) :
         IF raises
         THEN /\ futures' = [futures EXCEPT ![s].st = "collected",
                                            ![s].outcome = "search_error",
                                            ![s].nsearch = @ + 1]
              /\ pc' = "done"
              /\ UNCHANGED <<completed, early, errors>>
         ELSE LET movie == FirstMatch(ia[name_of(s)], 1, name_of(s), year_of(s))
              IN  /\ IF movie = None
                     THEN Finish(s, "no_match", None)
                     ELSE /\ futures' = [futures EXCEPT ![s].st = "details",
                                                        ![s].movie = movie,
                                                        ![s].nsearch = @ + 1]
                          /\ UNCHANGED <<completed, early>>
                  /\ UNCHANGED <<errors, pc>>
    /\ UNCHANGED <<config, imdb_info, origin, batch_start_index, batch_counter,
                   dispatched, earlier, progress, capped_report, calls>>

\* Lines 125-128: search_movie and the loop over its result.
SearchMovie(s) ==
    /\ futures[s].st = "search"
    /\ \E raises \in SearchRaises(s) :
         IF raises
         THEN Finish(s, "search_error", None) /\ ReportError(s)
         ELSE LET movie == FirstMatch(ia[name_of(s)], 1,
                                      name_of(s), year_of(s))
              IN  /\ IF movie = None
                     THEN Finish(s, "no_match", None)
                     ELSE /\ futures' = [futures EXCEPT ![s].st = "details",
                                                        ![s].movie = movie,
                                                        ![s].nsearch = @ + 1]
                          /\ UNCHANGED <<completed, early>>
                  /\ UNCHANGED errors
    /\ UNCHANGED <<config, imdb_info, origin, pc, batch_start_index, batch_counter,
                   dispatched, earlier, progress, capped_report, calls>>

\* Mutant of GetMovie: when get_movie raises, the next candidate that passes the
\* test is tried.
GetMovieRetrying(s) ==
    /\ futures[s].st = "details"
    /\ \E raises \in DetailsRaises(s) :
         IF raises
         THEN LET movies == ia[name_of(s)]
                  k == CHOOSE j \in DOMAIN movies : movies[j] = futures[s].movie
                  movie == FirstMatch(movies, k + 1, name_of(s), year_of(s))
              IN  IF movie = None
                  THEN Finish(s, "details_error", None) /\ ReportError(s)
                  ELSE /\ futures' = [futures EXCEPT ![s].movie = movie,
                                                     ![s].ndetails = @ + 1]
                       /\ UNCHANGED <<completed, early, errors>>
         ELSE /\ Finish(s, "match", Result(name_of(s), year_of(s),
                                           futures[s].movie.movieID))
              /\ UNCHANGED errors
    /\ UNCHANGED <<config, imdb_info, origin, pc, batch_start_index, batch_counter,
                   dispatched, earlier, progress, capped_report, calls>>

\* Mutant of GetMovie: the worker appends its dictionary to imdb_info itself.
GetMovieAppending(s) ==
    /\ futures[s].st = "details"
    /\ \E raises \in DetailsRaises(s) :
         IF raises
         THEN /\ Finish(s, "details_error", None) /\ ReportError(s)
              /\ UNCHANGED <<imdb_info, origin>>
         ELSE /\ Finish(s, "no_match", None)
              /\ imdb_info' = Append(imdb_info, Result(name_of(s), year_of(s),
                                                       futures[s].movie.movieID))
              /\ origin' = Append(origin, futures[s].idx)
              /\ UNCHANGED errors
    /\ UNCHANGED <<config, pc, batch_start_index, batch_counter,
                   dispatched, earlier, progress, capped_report, calls>>

\* Mutant of GetMovie: a failed get_movie is swallowed and the dictionary returned.
GetMovieSwallowing(s) ==
    /\ futures[s].st = "details"
    /\ \E raises \in DetailsRaises(s) :
         /\ Finish(s, IF raises THEN "details_error" ELSE "match",
                   Result(name_of(s), year_of(s), futures[s].movie.movieID))
         /\ UNCHANGED errors
    /\ UNCHANGED <<config, imdb_info, origin, pc, batch_start_index, batch_counter,
                   dispatched, earlier, progress, capped_report, calls>>

\* Lines 129-140: get_movie for the candidate chosen, and the dictionary returned.
GetMovie(s) ==
    /\ futures[s].st = "details"
    /\ \E raises \in DetailsRaises(s) :
         IF raises
         THEN Finish(s, "details_error", None) /\ ReportError(s)
         ELSE /\ Finish(s, "match", Result(name_of(s), year_of(s),
                                           futures[s].movie.movieID))
              /\ UNCHANGED errors
    /\ UNCHANGED <<config, imdb_info, origin, pc, batch_start_index, batch_counter,
                   dispatched, earlier, progress, capped_report, calls>>

Next ==
    \/ Call
    \/ Dispatch
    \/ Return
    \/ AsCompleted
    \/ Collect
    \/ EndBatch
    \/ \E s \in Slots : Start(s)
    \/ \E s \in Slots : SearchMovie(s)
    \/ \E s \in Slots : GetMovie(s)

Spec == Init /\ [][Next]_vars
SpecPool == InitPool /\ [][Next]_vars
SpecResolve == InitResolve /\ [][Next]_vars
SpecResume == InitResume /\ [][Next]_vars
SpecFixed == InitFixed /\ [][Next]_vars

\* The steps of the thread that runs get_imdb, and those of the pool thread that
\* runs the work item of slot s.
Scheduler == Dispatch \/ Return \/ AsCompleted \/ Collect \/ EndBatch
Worker(s) == s \in Slots /\ (Start(s) \/ SearchMovie(s) \/ GetMovie(s))

\* The run under fair scheduling: the thread of get_imdb keeps running, the pool
\* runs every work item submitted, every call of search_movie and get_movie
\* returns or raises.
SpecLive ==
    /\ Init
    /\ [][Next]_vars
    /\ WF_vars(Call)
    /\ WF_vars(Scheduler)
    /\ \A s \in 1..MaxLen : WF_vars(Worker(s))

TypeOK ==
    /\ pc \in {"idle", "loop", "submitted", "collect", "done"}
    /\ Len(origin) = Len(imdb_info)
    /\ \A s \in Slots :
         futures[s].st \in {"queued", "search", "details", "finished", "collected"}
    /\ \A k \in DOMAIN completed : futures[completed[k]].st = "finished"

(* ---- the claims ---- *)

Range(f) == {f[k] : k \in DOMAIN f}
FirstPositions(n) == [k \in 1..n |-> k - 1]

\* C1: for batch_size B > 0, a run over a catalog of length L dispatches exactly
\* min(max_num_batches, floor(L / B)) * B records, none of them among the trailing
\* L mod B records.
C1_DispatchesFloor ==
    (pc = "done" /\ batch_size > 0) =>
        /\ Len(dispatched)
             = Min(max_num_batches, Len(catalog) \div batch_size) * batch_size
        /\ \A k \in DOMAIN dispatched :
             dispatched[k] < (Len(catalog) \div batch_size) * batch_size

\* C2: at no time are more than 10 fetch_movie_data calls started and not finished,
\* also when the batch is larger than the pool.
C2_PoolBound == Cardinality(Running) <= 10

\* C2, witness: a batch larger than the pool with ten workers running and one waiting.
C2_PoolFull ==
    /\ Len(futures) > 10
    /\ Cardinality(Running) = 10
    /\ \E s \in Slots : futures[s].st = "queued"

\* The batches a run starts when no lookup fails: the loop test of line 170 read
\* on the configuration alone, after k batches of batch_size records.
FailureFreeBatches ==
    Min(max_num_batches,
        Cardinality({k \in 0..Len(catalog) : k * batch_size < Len(catalog) - batch_size}))

\* C3: lookups that raise for some records of a batch stop neither the other workers
\* of the batch, which finish and hand in their result, nor the later batches: the
\* run dispatches the same batches as a run without failures.
C3_FailuresIsolated ==
    /\ (pc \in {"loop", "done"}) =>
          \A s \in Slots :
             /\ futures[s].st = "collected"
             /\ futures[s].outcome \in {"match", "no_match", "search_error", "details_error"}
             /\ futures[s].outcome = "match" =>
                   \E k \in DOMAIN imdb_info :
                      origin[k] = futures[s].idx /\ imdb_info[k] = futures[s].result
    /\ (pc = "done" /\ batch_size > 0) =>
          dispatched = FirstPositions(FailureFreeBatches * batch_size)

\* C3, witness: a run of two batches ended; in the first a search or a details call
\* raised for one record, in the last one record raised and the other was matched.
C3_FailedAndWentOn ==
    /\ pc = "done"
    /\ batch_counter = 2
    /\ Len(futures) = 2
    /\ BagIn(<<"Dune", 2021>>, errors)
    /\ futures[1].outcome = "match"
    /\ futures[2].outcome = "search_error"
    /\ Len(imdb_info) = 2

\* C4: with batch_size <= 0 the run ends at once in an error: no iteration of the
\* loop runs, no worker is dispatched, imdb_info is left as it was.
C4_InvalidConfigRejected ==
    (batch_size <= 0) =>
        /\ pc \in {"idle", "loop", "done"}
        /\ batch_counter = 0
        /\ dispatched = <<>>
        /\ imdb_info = <<>>

\* C5: a run that stops with batch_counter at max_num_batches while a full batch of
\* the catalog is left has printed "Reached max num batches" before it returns.
C5_CapReported ==
    (/\ pc = "done"
     /\ batch_size > 0
     /\ batch_counter = max_num_batches
     /\ batch_start_index + batch_size <= Len(catalog)) => capped_report

C7_Barrier ==
    /\ (pc \in {"idle", "loop", "done"}) =>
          /\ Running = {}
          /\ \A s \in Slots : futures[s].st = "collected" /\ futures[s].nsearch = 1
    /\ (pc \in {"submitted", "collect"} /\ batch_size > 0) =>
          /\ Len(futures) = batch_size
          /\ \A s \in Slots : futures[s].idx = batch_start_index + s - 1
    /\ (batch_size > 0) =>
          Len(dispatched)
            = batch_size * (batch_counter + (IF pc \in {"submitted", "collect"} THEN 1 ELSE 0))

\* C7, witness: the run ended on the batch that reached max_num_batches, after
\* an earlier batch, and both workers of that last batch ran to completion.
C7_LastBatchCompleted ==
    /\ pc = "done"
    /\ max_num_batches = 2
    /\ batch_counter = 2
    /\ batch_size = 2
    /\ Len(futures) = 2
    /\ \A s \in Slots : futures[s].st = "collected"
    /\ Len(catalog) - batch_start_index >= 1

\* The ranks of the candidates of slot s's search result with the title and the
\* year of the record.
ExactMatches(s) ==
    {k \in DOMAIN ia[name_of(s)] :
        ia[name_of(s)][k].title = name_of(s) /\ ia[name_of(s)][k].year = year_of(s)}

Lowest(S) == CHOOSE k \in S : \A j \in S : k <= j

\* The search of slot s returned.
Searched(s) ==
    futures[s].st = "details" \/ futures[s].outcome \in {"match", "no_match", "details_error"}

\* C8: a record with ReleaseYear 0 whose search returns a non-empty result is never
\* matched: get_movie is not called and the worker returns None.
C8_YearZeroNeverMatches ==
    \A s \in Slots :
        (year_of(s) = 0 /\ ia[name_of(s)] # <<>>) =>
            /\ futures[s].st # "details"
            /\ futures[s].ndetails = 0
            /\ futures[s].result = None

\* C8, amended: a record with ReleaseYear 0 whose search returns a non-empty result
\* in which no candidate has both the record's title and the year 0 is never
\* matched: get_movie is not called and the worker returns None.
C8_YearZeroNoZeroCandidate ==
    \A s \in Slots :
        (year_of(s) = 0 /\ ia[name_of(s)] # <<>> /\ ExactMatches(s) = {}) =>
            /\ futures[s].st # "details"
            /\ futures[s].ndetails = 0
            /\ futures[s].result = None
            /\ futures[s].st \in {"finished", "collected"} =>
                  futures[s].outcome \in {"no_match", "search_error"}

\* C8, witness: a record of year 0 whose search returned candidates with its title,
\* none of year 0, finished without a match.
C8_YearZeroUnmatched ==
    \E s \in Slots :
        /\ year_of(s) = 0
        /\ Len(ia[name_of(s)]) = 2
        /\ \A k \in DOMAIN ia[name_of(s)] :
              ia[name_of(s)][k].title = name_of(s) /\ ia[name_of(s)][k].year # 0
        /\ futures[s].outcome = "no_match"
        /\ futures[s].st = "collected"

\* C9: after a successful search, the candidate whose details are fetched is the
\* first one, in the order of the search result, with the record's title and year;
\* when there is none, get_movie is not called, the worker returns None and no error
\* is reported.
C9_FirstExactMatch ==
    \A s \in Slots :
        Searched(s) =>
            IF ExactMatches(s) = {}
            THEN /\ futures[s].outcome = "no_match"
                 /\ futures[s].movie = None
                 /\ futures[s].ndetails = 0
                 /\ futures[s].result = None
                 /\ futures[s].st \in {"finished", "collected"}
            ELSE /\ futures[s].movie = ia[name_of(s)][Lowest(ExactMatches(s))]
                 /\ futures[s].outcome # "no_match"
                 /\ futures[s].outcome = "match" =>
                       futures[s].result
                         = Result(name_of(s), year_of(s),
                                  ia[name_of(s)][Lowest(ExactMatches(s))].movieID)

\* C9, witness: two records of one title and different years, a search result
\* with a candidate of each year; each record was matched to the candidate of its
\* own year, the second record to the second candidate.
C9_EachItsOwnYear ==
    /\ pc = "done"
    /\ catalog[1].ReleaseYear # catalog[2].ReleaseYear
    /\ Len(ia[catalog[1].Title]) = 2
    /\ imdb_info = <<Result(catalog[1].Title, catalog[1].ReleaseYear, 1),
                     Result(catalog[2].Title, catalog[2].ReleaseYear, 2)>>
    /\ ia[catalog[1].Title][1].title = catalog[1].Title
    /\ ia[catalog[1].Title][2].year = catalog[2].ReleaseYear

\* C10: every element of imdb_info stands for a dispatched record and carries its
\* title and year, some candidate of the record's search result has exactly that
\* title and year and is the one whose details the element holds; and an element
\* is appended only for a future whose search and get_movie both returned.
C10_ResultsSound ==
    /\ [](\A k \in DOMAIN imdb_info :
            /\ origin[k] \in Range(dispatched) \cup earlier
            /\ imdb_info[k].Title = catalog[origin[k] + 1].Title
            /\ imdb_info[k].ReleaseYear = catalog[origin[k] + 1].ReleaseYear
            /\ \E c \in Range(ia[imdb_info[k].Title]) :
                  /\ c.title = imdb_info[k].Title
                  /\ c.year = imdb_info[k].ReleaseYear
                  /\ c.movieID = imdb_info[k].movieID)
    /\ [][imdb_info' # imdb_info =>
            \E s \in Slots :
               /\ futures[s].st = "finished"
               /\ futures[s].outcome = "match"
               /\ futures[s].nsearch = 1
               /\ futures[s].ndetails = 1
               /\ futures[s].idx \in Range(dispatched)
               /\ imdb_info' = Append(imdb_info, futures[s].result)
               /\ origin' = Append(origin, futures[s].idx)]_vars

\* C10, witness: imdb_info holds elements of two batches while lookups of other
\* records have failed.
C10_TwoBatchesOfResults ==
    /\ Len(imdb_info) >= 2
    /\ origin[1] < batch_size
    /\ origin[Len(origin)] >= batch_size
    /\ errors # EmptyBag

\* C11: in a run started with imdb_info empty, imdb_info is never longer than the
\* number of records dispatched so far, and no dispatched position has contributed
\* more than one element.
C11_AtMostOnePerRecord ==
    /\ Len(imdb_info) <= Len(dispatched)
    /\ \A k \in DOMAIN origin : origin[k] \in Range(dispatched)
    /\ \A k, l \in DOMAIN origin : origin[k] = origin[l] => k = l
    /\ \A k, l \in DOMAIN dispatched : dispatched[k] = dispatched[l] => k = l

\* C11, witness: four records dispatched in two batches, three of them matched.
C11_ThreeOfFour ==
    /\ pc = "done"
    /\ Len(dispatched) = 4
    /\ Len(imdb_info) = 3
    /\ batch_counter = 2

\* C12: one progress pair per element appended to imdb_info and none otherwise; the
\* k-th pair is (k, length of the catalog): found is the length of imdb_info right
\* after the append, so the found values go up by one.
C12_ProgressPerAppend ==
    /\ [](/\ Len(progress) = Len(imdb_info)
          /\ \A k \in DOMAIN progress : progress[k] = <<k, Len(catalog)>>)
    /\ [][progress' # progress =>
            /\ Len(imdb_info') = Len(imdb_info) + 1
            /\ progress' = Append(progress, <<Len(imdb_info'), Len(catalog)>>)]_vars

\* C12, witness: a batch in which one record was matched, one was not and nothing
\* else was printed as progress, after a batch with a match.
C12_ProgressOnlyForMatches ==
    /\ pc = "done"
    /\ batch_counter = 2
    /\ Len(futures) = 2
    /\ futures[1].outcome = "match"
    /\ futures[2].outcome = "no_match"
    /\ progress = <<<<1, Len(catalog)>>, <<2, Len(catalog)>>>>
    /\ errors # EmptyBag

ErrorOutcomes == {"search_error", "details_error"}

\* The future of slot s finishes in this step.
Finishes(s) ==
    /\ s \in DOMAIN futures'
    /\ futures[s].st \in {"search", "details"}
    /\ futures'[s].st = "finished"

\* C13: a record whose search or get_movie raises yields no element of imdb_info
\* and exactly one error report, which names its title and year; a record whose
\* lookups do not raise yields no error report.
C13_OneReportPerFailure ==
    /\ [](\A s \in Slots :
            futures[s].outcome \in ErrorOutcomes =>
               /\ futures[s].result = None
               /\ futures[s].idx \notin Range(origin)
               /\ BagIn(<<name_of(s), year_of(s)>>, errors))
    /\ [][\A s \in Slots :
            Finishes(s) =>
               IF futures'[s].outcome \in ErrorOutcomes
               THEN errors' = errors (+) SetToBag({<<name_of(s), year_of(s)>>})
               ELSE errors' = errors]_vars
    /\ [][errors' # errors => \E s \in Slots : Finishes(s)]_vars

\* C13, witness: of the two records of a batch one failed in get_movie and was
\* reported once, the other was matched; a record of the batch before failed in
\* search.
C13_FailureReportedOnce ==
    /\ pc = "done"
    /\ batch_counter = 2
    /\ Len(futures) = 2
    /\ futures[1].outcome = "details_error"
    /\ futures[2].outcome = "no_match"
    /\ errors = SetToBag({<<"Heat", 0>>, <<"Dune", 1984>>})
    /\ origin = <<0>>

Waiting(s) == futures[s].st \in {"queued", "search", "details"}

\* C14: imdb_info is appended to only after the barrier of the batch: no element
\* of a batch is in imdb_info while a worker of that batch has not completed.
C14_AppendOnlyAfterBarrier ==
    \A s \in Slots :
        (futures[s].st = "collected" /\ futures[s].result # None) =>
            \A r \in Slots : ~Waiting(r)

\* C14, amended: imdb_info is appended to only by the scheduler thread, in the loop
\* over as_completed, and only with the result of a future that has finished; no
\* worker step changes imdb_info.  Other workers of the batch may still be queued
\* or running at that time; when the scheduler is between batches every result of
\* the batch has been appended.
C14_OnlySchedulerAppends ==
    /\ [][imdb_info' # imdb_info =>
            /\ pc = "collect"
            /\ pc' = "collect"
            /\ completed # <<>>
            /\ futures[Head(completed)].st = "finished"
            /\ imdb_info' = Append(imdb_info, futures[Head(completed)].result)
            /\ futures' = [futures EXCEPT ![Head(completed)].st = "collected"]]_vars
    /\ [](\A s \in Slots :
            (futures[s].idx \in Range(origin) /\ calls = 1) => futures[s].st = "collected")
    /\ []((pc \in {"loop", "done"}) =>
            \A s \in Slots :
               futures[s].result # None => futures[s].idx \in Range(origin))

\* C14, witness: the result of one worker is the last element of imdb_info while
\* the other worker of the batch is still running its search.
C14_AppendedWhileRunning ==
    /\ pc = "collect"
    /\ Len(futures) = 2
    /\ futures[2].st = "collected"
    /\ imdb_info # <<>>
    /\ imdb_info[Len(imdb_info)] = futures[2].result
    /\ futures[1].st = "search"

\* C15: for batch_size > 0, batch_counter never exceeds max_num_batches and
\* batch_start_index is batch_counter * batch_size; the two change only at the end
\* of a batch, by batch_size and by one, whatever the outcomes of the batch.
C15_CountersInStep ==
    /\ []((batch_size > 0) =>
            /\ batch_counter <= max_num_batches
            /\ batch_start_index = batch_counter * batch_size)
    /\ [][(batch_counter' # batch_counter \/ batch_start_index' # batch_start_index) =>
            /\ pc = "collect"
            /\ \A s \in Slots : futures[s].st = "collected"
            /\ batch_counter' = batch_counter + 1
            /\ batch_start_index' = batch_start_index + batch_size]_vars
    /\ [][(pc = "collect" /\ pc' # "collect") =>
            /\ batch_counter' = batch_counter + 1
            /\ batch_start_index' = batch_start_index + batch_size]_vars

\* C15, witness: two batches of two are over, with a match, a record without match
\* and a failed lookup among them; the counters stand at 2 and 4.
C15_TwoBatchesCounted ==
    /\ pc = "done"
    /\ batch_size = 2
    /\ batch_counter = 2
    /\ batch_start_index = 4
    /\ errors # EmptyBag
    /\ imdb_info # <<>>
    /\ \E s \in Slots : futures[s].outcome = "no_match"

\* C16: under fair scheduling a run with batch_size > 0 ends: get_imdb returns, and
\* it has run at most min(max_num_batches, floor(L / batch_size)) batches.
C16_Terminates ==
    /\ (batch_size > 0) => <>(pc = "done")
    /\ []((batch_size > 0) =>
            batch_counter <= Min(max_num_batches, Len(catalog) \div batch_size))

\* C16, witness: a run of two batches of two over five rows has ended, with a
\* failed lookup in it, having run exactly the bound of min(2, floor(5 / 2)) batches.
C16_EndedAtTheBound ==
    /\ pc = "done"
    /\ batch_size = 2
    /\ Len(catalog) = 5
    /\ batch_counter = Min(max_num_batches, Len(catalog) \div batch_size)
    /\ batch_counter = 2
    /\ \E s \in Slots : futures[s].outcome = "search_error"

\* The slots of q whose worker returned a dictionary, in the order of q.
WithResult(q) == SelectSeq(q, LAMBDA s : futures[s].result # None)

\* The elements of imdb_info come batch after batch.
BatchesSequential ==
    (batch_size > 0) =>
        \A k, l \in DOMAIN origin :
            k < l => origin[k] \div batch_size <= origin[l] \div batch_size

\* At the end of a batch every dictionary a worker of it returned is in imdb_info,
\* and imdb_info only grows.
NoneLost ==
    /\ []((pc \in {"loop", "done"}) =>
            \A s \in Slots :
               futures[s].result # None =>
                  \E k \in DOMAIN origin :
                     origin[k] = futures[s].idx /\ imdb_info[k] = futures[s].result)
    /\ [][/\ Len(imdb_info') >= Len(imdb_info)
          /\ SubSeq(imdb_info', 1, Len(imdb_info)) = imdb_info]_vars

\* C17: the elements of imdb_info come batch after batch, within a batch in the
\* order in which the workers completed, and every dictionary a worker returned
\* is appended.
C17_CompletionOrder ==
    /\ []BatchesSequential
    /\ NoneLost
    /\ [][(pc = "submitted" /\ pc' = "collect") =>
            WithResult(completed') = WithResult(early)]_vars
    /\ [][(pc = "collect" /\ completed' # completed) =>
            \/ completed # <<>> /\ completed' = Tail(completed)
            \/ \E s \in Slots : Finishes(s) /\ completed' = Append(completed, s)]_vars

\* C17, amended: the elements of imdb_info come batch after batch and every
\* dictionary a worker returned is appended; within a batch the futures that had
\* finished when as_completed was called come first, in no particular order, and
\* those that finish later follow in the order in which they finish.
C17_YieldOrder ==
    /\ []BatchesSequential
    /\ NoneLost
    /\ [][(pc = "submitted" /\ pc' = "collect") =>
            /\ Range(completed') = Range(early)
            /\ Len(completed') = Len(early)]_vars
    /\ [][(pc = "collect" /\ completed' # completed) =>
            \/ /\ completed # <<>>
               /\ completed' = Tail(completed)
               /\ futures' = [futures EXCEPT ![Head(completed)].st = "collected"]
               /\ futures[Head(completed)].result # None =>
                     origin' = Append(origin, futures[Head(completed)].idx)
            \/ \E s \in Slots : Finishes(s) /\ completed' = Append(completed, s)]_vars

\* C17, witness: two batches of two are over; the results of the first batch are
\* in imdb_info in the reverse of the catalog's order, before that of the second.
C17_SecondRowFirst ==
    /\ pc = "done"
    /\ batch_size = 2
    /\ batch_counter = 2
    /\ Len(origin) = 3
    /\ origin[1] = 1
    /\ origin[2] = 0
    /\ origin[3] >= 2

\* C18: no lookup is retried.  A worker calls search_movie once; it calls
\* get_movie at most once, for the first candidate that passes the test; when that
\* call raises, no other candidate is tried and the worker returns None.
C18_NoRetry ==
    /\ [](\A s \in Slots :
            /\ futures[s].st \in {"queued", "search"} =>
                  futures[s].nsearch = 0 /\ futures[s].ndetails = 0
            /\ futures[s].st = "details" =>
                  futures[s].nsearch = 1 /\ futures[s].ndetails = 0
            /\ futures[s].st \in {"finished", "collected"} =>
                  /\ futures[s].nsearch = 1
                  /\ futures[s].ndetails
                        = (IF futures[s].outcome \in {"match", "details_error"} THEN 1 ELSE 0)
            /\ (futures[s].st = "details" \/ futures[s].ndetails > 0) =>
                  /\ ExactMatches(s) # {}
                  /\ futures[s].movie = ia[name_of(s)][Lowest(ExactMatches(s))]
            /\ futures[s].outcome = "details_error" =>
                  futures[s].result = None /\ futures[s].idx \notin Range(origin))
    /\ [][\A s \in Slots :
            (futures[s].st \in {"finished", "collected"} /\ pc # "loop") =>
               /\ s \in DOMAIN futures'
               /\ futures'[s].st \in {"finished", "collected"}
               /\ futures'[s].nsearch = futures[s].nsearch
               /\ futures'[s].ndetails = futures[s].ndetails
               /\ futures'[s].outcome = futures[s].outcome]_vars

\* C18, witness: the search returned two candidates that both pass the test,
\* get_movie raised for the first, and the worker ended without a result after one
\* call of each lookup.
C18_SecondCandidateNotTried ==
    \E s \in Slots :
        /\ futures[s].st = "collected"
        /\ futures[s].outcome = "details_error"
        /\ Cardinality(ExactMatches(s)) = 2
        /\ futures[s].movie.movieID = 1
        /\ futures[s].nsearch = 1
        /\ futures[s].ndetails = 1
        /\ futures[s].result = None
        /\ imdb_info = <<>>

\* The loop of get_imdb run without its pool: the locals at its end and the
\* positions it has submitted, from the arguments alone.
RECURSIVE Sequential(_, _, _)
Sequential(start, counter, rows) ==
    IF counter < max_num_batches /\ start < Len(catalog) - batch_size
    THEN Sequential(start + batch_size, counter + 1,
                    rows \o Iloc(start, start + batch_size, Len(catalog)))
    ELSE [batch_start_index |-> start, batch_counter |-> counter, dispatched |-> rows]

\* What fetch_movie_data returns for the row at position i when the service
\* answers by the arguments alone.
Answer(i) ==
    LET movie_name == catalog[i + 1].Title
        year == catalog[i + 1].ReleaseYear
        movie == FirstMatch(ia[movie_name], 1, movie_name, year)
    IN  IF movie_name \in down.search_movie \/ movie = None THEN None
        ELSE IF movie.movieID \in down.get_movie THEN None
        ELSE Result(movie_name, year, movie.movieID)

Answers(rows) == SelectSeq([k \in DOMAIN rows |-> Answer(rows[k])], LAMBDA r : r # None)

RECURSIVE BagOf(_)
BagOf(q) == IF q = <<>> THEN EmptyBag ELSE BagOf(Tail(q)) (+) SetToBag({Head(q)})

\* C19: against a service that answers by the arguments of the call alone, every
\* interleaving of the workers ends a run with the same multiset in imdb_info, the
\* same batch_start_index and the same batch_counter, those of the loop run
\* without its pool; imdb_info differs only in the order inside a batch.
C19_SameEndEveryInterleaving ==
    (pc = "done") =>
        LET end == Sequential(0, 0, <<>>)
        IN  /\ batch_start_index = end.batch_start_index
            /\ batch_counter = end.batch_counter
            /\ dispatched = end.dispatched
            /\ BagOf(imdb_info) = BagOf(Answers(end.dispatched))
            /\ BagOf(origin) = BagOf(SelectSeq(end.dispatched, LAMBDA i : Answer(i) # None))
            /\ BatchesSequential

\* C19, witness: a run of two batches of two against a service that refuses every
\* search of "Heat" has ended with the results of its first batch in the reverse
\* of the order of the catalog.
C19_OtherOrderSameEnd ==
    /\ pc = "done"
    /\ flaky = {}
    /\ down.search_movie = {"Heat"}
    /\ batch_size = 2
    /\ batch_counter = 2
    /\ origin = <<1, 0>>
    /\ BagToSet(errors) = {<<"Heat", 0>>, <<"Heat", 1984>>}
====
